---- MODULE Spec2Model ----
(***************************************************************************)
(* Model of the utility scripts of Vibe-Working-Public:                    *)
(*   Codebase/run_paranoid_text_spacing.py   (normalize_spacing,           *)
(*                                            format_text_with_pangu, main)*)
(*   Codebase/relative_path_to_absolute_path.py   (get_absolute_path)      *)
(*                                                                         *)
(* A text is a sequence of characters.  Every character of the model       *)
(* stands for one class of code points that the regular expressions and    *)
(* str methods of the script tell apart:                                   *)
(*   "sp"    U+0020            "tab"   U+0009                              *)
(*   "nbsp"  U+00A0            "ideo"  U+3000 (ideographic space)          *)
(*   "nl"    U+000A (whitespace that is neither [ \t] nor translated)      *)
(*   "a"     a Latin letter    "cjk"   a CJK ideograph                     *)
(*   "comma" ","  (half-width punctuation)                                 *)
(*   "fstop" "。" (full-width punctuation)                                 *)
(*   "quote" '"'  (pair opener and closer, in no punctuation set)          *)
(***************************************************************************)
EXTENDS Integers, Sequences, FiniteSets, TLC

VARIABLES
    n_text,      \* SpecNorm: the argument of normalize_spacing
    n_first,     \* SpecNorm: the value returned by the first application
    n_out,       \* SpecNorm: the value returned by the latest application
    n_applied,   \* SpecNorm: how many times normalize_spacing was applied
    raw,         \* Spec: the line read by main
    pangu,       \* Spec: the pangu module main obtained (a record)
    pc,          \* Spec: position in main / format_text_with_pangu / normalize_spacing
    text,        \* Spec: the local `spaced` / `text`
    out,         \* Spec: the value main prints
    events,      \* Spec: the transformations applied so far, in order
    fellback,    \* Spec: the minimal cleanup was taken
    exc,         \* Spec: the line whose call raised, or "none"
    p_input,     \* SpecPath: relative_path_input
    p_flag,      \* SpecPath: return_path_object
    p_env,       \* SpecPath: what the operating system does to the conversion
    p_pc,        \* SpecPath: position in get_absolute_path
    p_obj,       \* SpecPath: path_obj / absolute_path_obj
    p_outcome,   \* SpecPath: how the call ended
    w_trees,     \* SpecWalk: the directory trees under path1 and path2
    w_pc,        \* SpecWalk: position in get_diff_files_and_folders
    w_todo,      \* SpecWalk: the directories os.walk has still to yield
    w_acc,       \* SpecWalk: total_size, file_count, file_paths, folder_paths
    w_res,       \* SpecWalk: the tuples get_size_and_files has returned
    w_diff       \* SpecWalk: the four differences

normVars == <<n_text, n_first, n_out, n_applied>>
fmtVars == <<raw, pangu, pc, text, out, events, fellback, exc>>
pathVars == <<p_input, p_flag, p_env, p_pc, p_obj, p_outcome>>
walkVars == <<w_trees, w_pc, w_todo, w_acc, w_res, w_diff>>
vars == <<n_text, n_first, n_out, n_applied, raw, pangu, pc, text, out, events, fellback, exc,
          p_input, p_flag, p_env, p_pc, p_obj, p_outcome,
          w_trees, w_pc, w_todo, w_acc, w_res, w_diff>>

----------------------------------------------------------------------------
(* Bounds *)

MaxLen == 5
MaxRawLen == 3
MaxParts == 3
MaxDirs == 2
MaxNames == 2

----------------------------------------------------------------------------
(* Character classes *)

CJK_CLASS == {"cjk"}
HALF_PUNCT == {"comma"}
FULLWIDTH_PUNCT == {"fstop"}
PAIR_OPENERS == {"quote"}
PAIR_CLOSERS == {"quote"}

\* the class [ \t] every pattern uses for the whitespace it deletes
SPACE_TAB == {"sp", "tab"}

\* the keys of _SPACE_NORMALIZATION other than U+0020
SPECIAL_SPACES == {"nbsp", "ideo"}

\* what str.strip() removes and str.isspace() accepts
WHITESPACE == {"sp", "tab", "nl", "nbsp", "ideo"}

Chars == {"sp", "tab", "nbsp", "ideo", "nl", "a", "cjk", "comma", "fstop", "quote"}

\* the characters normalize_spacing tells apart: "ideo" is translated exactly
\* as "nbsp" is and "fstop" is matched exactly where "comma" is
NormChars == {"sp", "tab", "nbsp", "nl", "a", "cjk", "comma", "quote"}

RECURSIVE Texts(_, _)
Texts(A, n) ==
    IF n = 0 THEN {<<>>}
    ELSE LET shorter == Texts(A, n - 1)
         IN shorter \cup {Append(t, c) : t \in {u \in shorter : Len(u) = n - 1}, c \in A}

----------------------------------------------------------------------------
(* str and re primitives *)

\* mutant of SPACE_NORMALIZATION: the table also maps a punctuation mark to " "
SPACE_NORMALIZATION_WithComma(txt) ==
    [i \in 1..Len(txt) |->
        IF txt[i] \in SPECIAL_SPACES \cup {"sp", "comma"} THEN "sp" ELSE txt[i]]

\* txt.translate(_SPACE_NORMALIZATION)
SPACE_NORMALIZATION(txt) ==
    [i \in 1..Len(txt) |-> IF txt[i] \in SPECIAL_SPACES \cup {"sp"} THEN "sp" ELSE txt[i]]

\* first index at or after i that does not hold a character of S
RECURSIVE RunEnd(_, _, _)
RunEnd(S, s, i) ==
    IF i > Len(s) \/ s[i] \notin S THEN i ELSE RunEnd(S, s, i + 1)

\* re.sub of ([L])([ \t]+) by \1, scanning from index i
RECURSIVE SubAfterFrom(_, _, _)
SubAfterFrom(L, s, i) ==
    IF i > Len(s) THEN <<>>
    ELSE IF s[i] \in L /\ i < Len(s) /\ s[i + 1] \in SPACE_TAB
         THEN <<s[i]>> \o SubAfterFrom(L, s, RunEnd(SPACE_TAB, s, i + 1))
         ELSE <<s[i]>> \o SubAfterFrom(L, s, i + 1)

\* re.sub of ([ \t]+)([R]) by \2, scanning from index i
RECURSIVE SubBeforeFrom(_, _, _)
SubBeforeFrom(R, s, i) ==
    IF i > Len(s) THEN <<>>
    ELSE LET j == RunEnd(SPACE_TAB, s, i)
         IN IF s[i] \in SPACE_TAB /\ j <= Len(s) /\ s[j] \in R
            THEN <<s[j]>> \o SubBeforeFrom(R, s, j + 1)
            ELSE <<s[i]>> \o SubBeforeFrom(R, s, i + 1)

\* re.sub of ([L])([ \t]+)([R]) by \1\3, scanning from index i: a match
\* consumes its right-hand character, the scan resumes after it
RECURSIVE SubGapFrom(_, _, _, _)
SubGapFrom(L, R, s, i) ==
    IF i > Len(s) THEN <<>>
    ELSE LET j == RunEnd(SPACE_TAB, s, i + 1)
         IN IF s[i] \in L /\ i < Len(s) /\ s[i + 1] \in SPACE_TAB
               /\ j <= Len(s) /\ s[j] \in R
            THEN <<s[i], s[j]>> \o SubGapFrom(L, R, s, j + 1)
            ELSE <<s[i]>> \o SubGapFrom(L, R, s, i + 1)

\* re.sub of [S]{k,} by " ", scanning from index i
RECURSIVE SubRunsFrom(_, _, _, _)
SubRunsFrom(S, k, s, i) ==
    IF i > Len(s) THEN <<>>
    ELSE LET j == RunEnd(S, s, i)
         IN IF j - i >= k
            THEN <<"sp">> \o SubRunsFrom(S, k, s, j)
            ELSE <<s[i]>> \o SubRunsFrom(S, k, s, i + 1)

\* str.lstrip() and str.rstrip()
RECURSIVE lstrip(_)
lstrip(s) ==
    IF s # <<>> /\ Head(s) \in WHITESPACE THEN lstrip(Tail(s)) ELSE s

RECURSIVE rstrip(_)
rstrip(s) ==
    IF s # <<>> /\ s[Len(s)] \in WHITESPACE THEN rstrip(SubSeq(s, 1, Len(s) - 1)) ELSE s

\* mutant of strip: only the leading whitespace is removed
strip_LeadingOnly(s) == lstrip(s)

\* str.strip()
strip(s) == rstrip(lstrip(s))

----------------------------------------------------------------------------
(* The compiled patterns, each with the substitution normalize_spacing makes *)

AFTER_PUNCT_SPACE(txt) == SubAfterFrom(FULLWIDTH_PUNCT \cup HALF_PUNCT, txt, 1)

\* mutant of BEFORE_PUNCT_SPACE: the pattern is built from the closers' class
BEFORE_PUNCT_SPACE_ClosersOnly(txt) == SubBeforeFrom(PAIR_CLOSERS, txt, 1)

BEFORE_PUNCT_SPACE(txt) == SubBeforeFrom(FULLWIDTH_PUNCT \cup HALF_PUNCT, txt, 1)
CJK_GAP(txt) == SubGapFrom(CJK_CLASS, CJK_CLASS, txt, 1)
SPACE_BEFORE_CLOSER(txt) == SubBeforeFrom(PAIR_CLOSERS, txt, 1)
SPACE_AFTER_OPENER(txt) == SubAfterFrom(PAIR_OPENERS, txt, 1)
CJK_TO_PUNCT(txt) == SubGapFrom(CJK_CLASS, FULLWIDTH_PUNCT \cup HALF_PUNCT, txt, 1)
PUNCT_TO_CJK(txt) == SubGapFrom(FULLWIDTH_PUNCT \cup HALF_PUNCT, CJK_CLASS, txt, 1)
HALF_PUNCT_GAP(txt) == SubGapFrom(HALF_PUNCT, FULLWIDTH_PUNCT \cup HALF_PUNCT, txt, 1)
FULLWIDTH_PUNCT_GAP(txt) ==
    SubGapFrom(FULLWIDTH_PUNCT, FULLWIDTH_PUNCT \cup HALF_PUNCT, txt, 1)

\* mutant of MULTI_SPACE: the quantifier is {3,}
MULTI_SPACE_ThreeOrMore(txt) == SubRunsFrom(SPACE_TAB, 3, txt, 1)

MULTI_SPACE(txt) == SubRunsFrom(SPACE_TAB, 2, txt, 1)

\* a spacer that returns its argument unchanged
IdentitySpacer(txt) == txt

\* normalize_spacing with the spacer returning its argument unchanged
normalize_spacing(txt) ==
    IF txt = <<>> THEN txt
    ELSE LET t1 == SPACE_NORMALIZATION(txt)
             t2 == AFTER_PUNCT_SPACE(t1)
             t3 == BEFORE_PUNCT_SPACE(t2)
             t4 == CJK_GAP(t3)
             t5 == SPACE_BEFORE_CLOSER(t4)
             t6 == SPACE_AFTER_OPENER(t5)
             t7 == CJK_TO_PUNCT(t6)
             t8 == PUNCT_TO_CJK(t7)
             t9 == HALF_PUNCT_GAP(t8)
             t10 == FULLWIDTH_PUNCT_GAP(t9)
             t11 == MULTI_SPACE(t10)
         IN IdentitySpacer(strip(t11))

----------------------------------------------------------------------------
(* SpecNorm: normalize_spacing applied to every text of at most MaxLen    *)
(* characters, and applied again to its own result                         *)

FmtIdle ==
    /\ raw = <<>> /\ pangu = [present |-> FALSE, kind |-> "none", failAt |-> 0]
    /\ pc = "idle" /\ text = <<>> /\ out = <<>> /\ events = <<>>
    /\ fellback = FALSE /\ exc = "none"

\* no Path object made yet
NoPath == [made |-> FALSE, absolute |-> FALSE, parts |-> <<>>]

\* the call has not ended
NoOutcome == [kind |-> "none", type |-> "none", cause |-> "none", path |-> NoPath, str |-> <<>>]

PathIdle ==
    /\ p_input = [type |-> "NoneType", absolute |-> FALSE, parts |-> <<>>]
    /\ p_flag = TRUE /\ p_env = "ok"
    /\ p_pc = "idle" /\ p_obj = NoPath /\ p_outcome = NoOutcome

\* a directory without files and subfolders
EmptyTree == [dirs |-> {}, files |-> {}]

\* total_size, file_count, file_paths and folder_paths as get_size_and_files
\* initialises them
EmptyStats == [total_size |-> 0, file_count |-> 0, file_paths |-> {}, folder_paths |-> {}]

\* no difference computed yet
NoDiff == [files1 |-> {}, files2 |-> {}, folders1 |-> {}, folders2 |-> {}]

WalkIdle ==
    /\ w_trees = <<EmptyTree, EmptyTree>> /\ w_pc = "idle" /\ w_todo = <<>>
    /\ w_acc = EmptyStats /\ w_res = <<>> /\ w_diff = NoDiff

NormIdle == n_text = <<>> /\ n_first = <<>> /\ n_out = <<>> /\ n_applied = 0

NormInit ==
    /\ n_text \in Texts(NormChars, MaxLen)
    /\ n_first = <<>>
    /\ n_out = <<>>
    /\ n_applied = 0
    /\ FmtIdle /\ PathIdle /\ WalkIdle

Apply ==
    /\ n_applied = 0
    /\ n_out' = normalize_spacing(n_text)
    /\ n_first' = n_out'
    /\ n_applied' = 1
    /\ UNCHANGED <<n_text, fmtVars, pathVars, walkVars>>

ApplyAgain ==
    /\ n_applied = 1
    /\ n_out' = normalize_spacing(n_out)
    /\ n_applied' = 2
    /\ UNCHANGED <<n_text, n_first, fmtVars, pathVars, walkVars>>

NormNext == Apply \/ ApplyAgain

SpecNorm == NormInit /\ [][NormNext]_vars

----------------------------------------------------------------------------
(* Properties of normalize_spacing, checked under SpecNorm *)

Range(s) == {s[i] : i \in 1..Len(s)}

\* the non-whitespace characters of s, in order
NonWhitespace(s) == SelectSeq(s, LAMBDA c : c \notin WHITESPACE)

HasSpaceRun(s) == \E i \in 1..(Len(s) - 1) : s[i] \in SPACE_TAB /\ s[i + 1] \in SPACE_TAB

\* a run of [ \t] of s lies between two CJK characters
HasCjkGap(s) ==
    \E i \in 1..Len(s) :
        /\ s[i] \in CJK_CLASS
        /\ i < Len(s) /\ s[i + 1] \in SPACE_TAB
        /\ LET j == RunEnd(SPACE_TAB, s, i + 1) IN j <= Len(s) /\ s[j] \in CJK_CLASS

PUNCT == FULLWIDTH_PUNCT \cup HALF_PUNCT

\* a [ \t] character of s is next to a punctuation character
HasPunctSpace(s) ==
    \E i \in 1..(Len(s) - 1) :
        \/ s[i] \in PUNCT /\ s[i + 1] \in SPACE_TAB
        \/ s[i] \in SPACE_TAB /\ s[i + 1] \in PUNCT

\* C1: normalize_spacing keeps the sequence of non-whitespace characters of
\* its argument: it neither drops, adds nor reorders one.
C1_CharacterPreservation ==
    n_applied >= 1 => NonWhitespace(n_out) = NonWhitespace(n_text)

\* whitespace was deleted from between three or more non-whitespace characters
C1_Witness ==
    /\ n_applied = 1
    /\ Len(NonWhitespace(n_text)) >= 3
    /\ Len(n_out) < Len(n_text)
    /\ Head(n_text) \notin WHITESPACE /\ n_text[Len(n_text)] \notin WHITESPACE

\* C2: normalize_spacing applied to its own result returns that result.
C2_Idempotence == n_applied = 2 => n_out = n_first

\* C3: the result of normalize_spacing holds no two consecutive space/tab
\* characters.
C3_NoSpaceRun == n_applied >= 1 => ~HasSpaceRun(n_out)

\* a run inside the text was collapsed to the one space that is left
C3_Witness ==
    /\ n_applied = 1
    /\ HasSpaceRun(n_text)
    /\ "sp" \in Range(n_out)

\* C4: the result of normalize_spacing neither starts nor ends with a
\* whitespace character, and the empty text is mapped to the empty text.
C4_Trimmed ==
    n_applied >= 1 =>
        /\ n_out # <<>> => Head(n_out) \notin WHITESPACE /\ n_out[Len(n_out)] \notin WHITESPACE
        /\ n_text = <<>> => n_out = <<>>

\* whitespace that no pattern deletes was stripped from both ends
C4_Witness ==
    /\ n_applied = 1
    /\ n_out # <<>>
    /\ Head(n_text) = "nl" /\ n_text[Len(n_text)] = "nl"

\* C9: the result of normalize_spacing holds no run of space/tab characters
\* whose two neighbours are both CJK characters.
C9_NoCjkGap == n_applied >= 1 => ~HasCjkGap(n_out)

\* C10: in the result of normalize_spacing no space/tab character stands
\* immediately before or immediately after a punctuation character.
C10_NoPunctSpace == n_applied >= 1 => ~HasPunctSpace(n_out)

\* spaces on both sides of a punctuation mark inside the text were deleted
C10_Witness ==
    /\ n_applied = 1
    /\ \E i \in 2..(Len(n_text) - 1) :
           n_text[i] \in PUNCT /\ n_text[i - 1] \in SPACE_TAB /\ n_text[i + 1] \in SPACE_TAB
    /\ Len(n_out) >= 3

----------------------------------------------------------------------------
(* Spec: one round of main's loop on a line `raw`: format_text_with_pangu  *)
(* and, inside it, normalize_spacing, one statement per step               *)

\* pangu.spacing_text as the module docstring describes it: a space is put
\* between a CJK character and a half-width letter or punctuation mark next to it
HALF_WIDTH == {"a"} \cup HALF_PUNCT

RECURSIVE InsertSpacesFrom(_, _)
InsertSpacesFrom(s, i) ==
    IF i > Len(s) THEN <<>>
    ELSE IF i < Len(s) /\ \/ s[i] \in CJK_CLASS /\ s[i + 1] \in HALF_WIDTH
                          \/ s[i] \in HALF_WIDTH /\ s[i + 1] \in CJK_CLASS
         THEN <<s[i], "sp">> \o InsertSpacesFrom(s, i + 1)
         ELSE <<s[i]>> \o InsertSpacesFrom(s, i + 1)

\* the value a spacer of the given kind returns for txt
spacing_text(kind, txt) ==
    IF kind = "identity" THEN IdentitySpacer(txt) ELSE InsertSpacesFrom(txt, 1)

\* the modules main may hold: none (the import failed), or a spacer that
\* returns txt unchanged or spaced, and raises on no call, the first or the second
Pangus ==
    {[present |-> FALSE, kind |-> "none", failAt |-> 0]}
        \cup [present : {TRUE}, kind : {"identity", "pangu"}, failAt : 0..2]

\* number of spacer calls made so far
SpacerCalls ==
    Len(SelectSeq(events, LAMBDA e : e \in {"spacer@format_text_with_pangu",
                                            "spacer@normalize_spacing"}))

\* mutant of ReplaceNbsp: the replacement is left out
ReplaceNbsp_Skipped(txt) == txt

\* raw.replace(" ", " ")
ReplaceNbsp(txt) == [i \in 1..Len(txt) |-> IF txt[i] = "nbsp" THEN "sp" ELSE txt[i]]

\* re.sub(r" {2,}", " ", temp).strip() of temp = raw.replace(" ", " ")
MinimalCleanup(txt) == strip(SubRunsFrom({"sp"}, 2, ReplaceNbsp(txt), 1))

\* mutant of TRY_BLOCK: the try statement ends after the first spacer call
TRY_BLOCK_FirstCallOnly == {"L185"}

\* the raising calls the try statement of format_text_with_pangu covers
TRY_BLOCK == {"L185", "L174"}

Init ==
    /\ raw \in Texts(Chars, MaxRawLen)
    /\ pangu \in Pangus
    /\ pc = "main"
    /\ text = <<>>
    /\ out = <<>>
    /\ events = <<>>
    /\ fellback = FALSE
    /\ exc = "none"
    /\ NormIdle /\ PathIdle /\ WalkIdle

\* main: pangu_module is not None, format_text_with_pangu is called
MainFormat ==
    /\ pc = "main" /\ pangu.present
    /\ pc' = "L185"
    /\ UNCHANGED <<raw, pangu, text, out, events, fellback, exc, normVars, pathVars, walkVars>>

\* main: pangu_module is None, the minimal cleanup is done in place
MainNoPangu ==
    /\ pc = "main" /\ ~pangu.present
    /\ out' = MinimalCleanup(raw)
    /\ fellback' = TRUE
    /\ pc' = "done"
    /\ UNCHANGED <<raw, pangu, text, events, exc, normVars, pathVars, walkVars>>

\* spaced = pangu_module.spacing_text(raw)
L185_CallSpacer ==
    /\ pc = "L185"
    /\ events' = Append(events, "spacer@format_text_with_pangu")
    /\ IF pangu.failAt = SpacerCalls + 1
       THEN pc' = "raised" /\ exc' = "L185" /\ UNCHANGED text
       ELSE pc' = "L153" /\ text' = spacing_text(pangu.kind, raw) /\ UNCHANGED exc
    /\ UNCHANGED <<raw, pangu, out, fellback, normVars, pathVars, walkVars>>

\* if not text: return text
L153_Empty ==
    /\ pc = "L153"
    /\ IF text = <<>>
       THEN pc' = "done" /\ out' = text
       ELSE pc' = "L156" /\ UNCHANGED out
    /\ UNCHANGED <<raw, pangu, text, events, fellback, exc, normVars, pathVars, walkVars>>

\* the effect of one statement text = ...(text) of normalize_spacing
Pass(next, name, result) ==
    /\ text' = result
    /\ events' = Append(events, name)
    /\ pc' = next
    /\ UNCHANGED <<raw, pangu, out, fellback, exc, normVars, pathVars, walkVars>>

L156_Translate ==
    /\ pc = "L156"
    /\ Pass("L158", "translate", SPACE_NORMALIZATION(text))
L158_AfterPunct ==
    /\ pc = "L158"
    /\ Pass("L159", "after_punct", AFTER_PUNCT_SPACE(text))
L159_BeforePunct ==
    /\ pc = "L159"
    /\ Pass("L161", "before_punct", BEFORE_PUNCT_SPACE(text))
L161_CjkGap ==
    /\ pc = "L161"
    /\ Pass("L163", "cjk_gap", CJK_GAP(text))
L163_BeforeCloser ==
    /\ pc = "L163"
    /\ Pass("L164", "before_closer", SPACE_BEFORE_CLOSER(text))
L164_AfterOpener ==
    /\ pc = "L164"
    /\ Pass("L166", "after_opener", SPACE_AFTER_OPENER(text))
L166_CjkToPunct ==
    /\ pc = "L166"
    /\ Pass("L167", "cjk_to_punct", CJK_TO_PUNCT(text))
L167_PunctToCjk ==
    /\ pc = "L167"
    /\ Pass("L169", "punct_to_cjk", PUNCT_TO_CJK(text))
L169_HalfPunctGap ==
    /\ pc = "L169"
    /\ Pass("L170", "half_punct_gap", HALF_PUNCT_GAP(text))
L170_FullwidthPunctGap ==
    /\ pc = "L170"
    /\ Pass("L172", "fullwidth_punct_gap", FULLWIDTH_PUNCT_GAP(text))
L172_MultiSpace ==
    /\ pc = "L172"
    /\ Pass("L174", "multi_space", MULTI_SPACE(text))

\* mutant of L174_StripAndSpacer: the spacer is called first, its result trimmed
L174_SpacerThenStrip ==
    /\ pc = "L174"
    /\ events' = events \o <<"spacer@normalize_spacing", "strip">>
    /\ IF pangu.failAt = SpacerCalls + 1
       THEN pc' = "raised" /\ exc' = "L174" /\ UNCHANGED out
       ELSE pc' = "done" /\ out' = strip(spacing_text(pangu.kind, text)) /\ UNCHANGED exc
    /\ UNCHANGED <<raw, pangu, text, fellback, normVars, pathVars, walkVars>>

\* return pangu_spacing.spacing_text(text.strip()), returned in turn by
\* format_text_with_pangu
L174_StripAndSpacer ==
    /\ pc = "L174"
    /\ events' = events \o <<"strip", "spacer@normalize_spacing">>
    /\ IF pangu.failAt = SpacerCalls + 1
       THEN pc' = "raised" /\ exc' = "L174" /\ UNCHANGED out
       ELSE pc' = "done" /\ out' = spacing_text(pangu.kind, strip(text)) /\ UNCHANGED exc
    /\ UNCHANGED <<raw, pangu, text, fellback, normVars, pathVars, walkVars>>

\* except Exception: the handler is entered when the raising call lies in the
\* try statement, the exception leaves format_text_with_pangu otherwise
L189_Except ==
    /\ pc = "raised"
    /\ pc' = IF exc \in TRY_BLOCK THEN "L191" ELSE "propagated"
    /\ UNCHANGED <<raw, pangu, text, out, events, fellback, exc, normVars, pathVars, walkVars>>

\* the handler: the minimal cleanup of raw is returned
L191_Fallback ==
    /\ pc = "L191"
    /\ out' = MinimalCleanup(raw)
    /\ fellback' = TRUE
    /\ pc' = "done"
    /\ UNCHANGED <<raw, pangu, text, events, exc, normVars, pathVars, walkVars>>

Next ==
    \/ MainFormat
    \/ MainNoPangu
    \/ L185_CallSpacer
    \/ L153_Empty
    \/ L156_Translate
    \/ L158_AfterPunct
    \/ L159_BeforePunct
    \/ L161_CjkGap
    \/ L163_BeforeCloser
    \/ L164_AfterOpener
    \/ L166_CjkToPunct
    \/ L167_PunctToCjk
    \/ L169_HalfPunctGap
    \/ L170_FullwidthPunctGap
    \/ L172_MultiSpace
    \/ L174_StripAndSpacer
    \/ L189_Except
    \/ L191_Fallback

Spec == Init /\ [][Next]_vars

----------------------------------------------------------------------------
(* Properties of format_text_with_pangu and main, checked under Spec *)

IsPrefix(s, t) == Len(s) <= Len(t) /\ s = SubSeq(t, 1, Len(s))

HasPlainSpaceRun(s) == \E i \in 1..(Len(s) - 1) : s[i] = "sp" /\ s[i + 1] = "sp"

IsTrimmed(s) == s # <<>> => Head(s) \notin WHITESPACE /\ s[Len(s)] \notin WHITESPACE

\* C5: format_text_with_pangu returns a string whatever the spacer does: an
\* exception of either spacer call never leaves it, and the value returned
\* after one is the minimal cleanup of the original raw text.
C5_Totality ==
    /\ pc # "propagated"
    /\ pc = "done" => out \in Seq(Chars)
    /\ pc = "done" /\ exc # "none" => fellback /\ out = MinimalCleanup(raw)

\* the second spacer call raised, after the passes had changed the spaced
\* text, and the cleanup of raw was returned
C5_Witness ==
    /\ pc = "done"
    /\ exc = "L174"
    /\ text # raw
    /\ out # <<>> /\ out # raw

NotPlainOrNbsp(s) == SelectSeq(s, LAMBDA c : c \notin {"sp", "nbsp"})

PIPELINE ==
    <<"spacer@format_text_with_pangu", "translate", "after_punct", "before_punct",
      "cjk_gap", "before_closer", "after_opener", "cjk_to_punct", "punct_to_cjk",
      "half_punct_gap", "fullwidth_punct_gap", "multi_space", "strip",
      "spacer@normalize_spacing">>

\* C7 as claimed: the spacer is called before the first pass only, never by
\* normalize_spacing, and the trim is the last transformation of a returned text.
C7_SpacerOnlyAtCallingLayer ==
    /\ \A i \in 1..Len(events) : events[i] # "spacer@normalize_spacing"
    /\ \A i \in 2..Len(events) : events[i] # "spacer@format_text_with_pangu"
    /\ pc = "done" /\ ~fellback /\ text # <<>> => events[Len(events)] = "strip"

\* C7 amended: the transformations of one call are applied in the order of
\* PIPELINE: the spacer first, the passes, the trim, and then the spacer once
\* more, called by normalize_spacing, as the last transformation of a returned
\* non-empty text.
C7_SpacerFirstAndLast ==
    /\ IsPrefix(events, PIPELINE)
    /\ pc = "done" /\ ~fellback /\ text # <<>> => events = PIPELINE

\* a call returned the result of the second spacer call, which changed the
\* trimmed text
C7_Witness ==
    /\ pc = "done" /\ ~fellback
    /\ events = PIPELINE
    /\ out # strip(text)

----------------------------------------------------------------------------
(* SpecPath: one call of get_absolute_path.  A path string is a sequence   *)
(* of components, absolute when it starts with the separator; "nul" is a   *)
(* component that holds an embedded null byte.                             *)

PathParts == {"a", ".", "..", "nul"}

\* the current working directory of the process
CWD == <<"home", "w">>

\* the arguments run_tests passes: path strings, the int 123 and None
PathInputs ==
    [type : {"str"}, absolute : BOOLEAN, parts : Texts(PathParts, MaxParts)]
        \cup [type : {"int", "NoneType"}, absolute : {FALSE}, parts : {<<>>}]

\* what the operating system does to the conversion: nothing, the working
\* directory was removed, or a symbolic link of the path points to itself
PathEnvs == {"ok", "cwd_gone", "symlink_loop"}

\* mutant of isinstance_str: the type check is left out
isinstance_str_Always(x) == TRUE

\* isinstance(relative_path_input, str)
isinstance_str(x) == x.type = "str"

\* Path(relative_path_input): the "." components are dropped
PathOf(x) ==
    [made |-> TRUE, absolute |-> x.absolute,
     parts |-> SelectSeq(x.parts, LAMBDA c : c # ".")]

\* the components left once every ".." has removed the component before it
RECURSIVE Collapse(_, _)
Collapse(done, rest) ==
    IF rest = <<>> THEN done
    ELSE IF Head(rest) = ".."
         THEN Collapse(IF done = <<>> THEN done ELSE SubSeq(done, 1, Len(done) - 1),
                       Tail(rest))
         ELSE Collapse(Append(done, Head(rest)), Tail(rest))

\* the exception path_obj.resolve(strict=False) raises, or "none"
ResolveError(path, env) ==
    IF "nul" \in Range(path.parts) THEN "ValueError"
    ELSE IF env = "cwd_gone" /\ ~path.absolute THEN "OSError"
    ELSE IF env = "symlink_loop" THEN "RuntimeError"
    ELSE "none"

\* path_obj.resolve(strict=False) on a file system without symbolic links
resolve(path) ==
    [made |-> TRUE, absolute |-> TRUE,
     parts |-> Collapse(IF path.absolute THEN <<>> ELSE CWD, path.parts)]

\* str(absolute_path_obj)
RECURSIVE JoinParts(_)
JoinParts(parts) ==
    IF parts = <<>> THEN <<>> ELSE <<"/", Head(parts)>> \o JoinParts(Tail(parts))

str_of(path) ==
    IF path.parts = <<>> THEN IF path.absolute THEN <<"/">> ELSE <<".">>
    ELSE IF path.absolute THEN JoinParts(path.parts) ELSE Tail(JoinParts(path.parts))

PathInit ==
    /\ p_input \in PathInputs
    /\ p_flag \in BOOLEAN
    /\ p_env \in PathEnvs
    /\ p_pc = "L46"
    /\ p_obj = NoPath
    /\ p_outcome = NoOutcome
    /\ NormIdle /\ FmtIdle /\ WalkIdle

\* if not isinstance(relative_path_input, str): raise TypeError(...)
L46_TypeCheck ==
    /\ p_pc = "L46"
    /\ IF isinstance_str(p_input)
       THEN p_pc' = "L55" /\ UNCHANGED p_outcome
       ELSE /\ p_pc' = "done"
            /\ p_outcome' = [NoOutcome EXCEPT !.kind = "raise", !.type = "TypeError"]
    /\ UNCHANGED <<p_input, p_flag, p_env, p_obj, normVars, fmtVars, walkVars>>

\* path_obj = Path(relative_path_input): pathlib raises TypeError for an
\* argument that is no str
L55_Path ==
    /\ p_pc = "L55"
    /\ IF p_input.type = "str"
       THEN p_pc' = "L71" /\ p_obj' = PathOf(p_input) /\ UNCHANGED p_outcome
       ELSE /\ p_pc' = "L76"
            /\ p_outcome' = [NoOutcome EXCEPT !.kind = "pending", !.type = "TypeError"]
            /\ UNCHANGED p_obj
    /\ UNCHANGED <<p_input, p_flag, p_env, normVars, fmtVars, walkVars>>

\* absolute_path_obj = path_obj.resolve(strict=False)
L71_Resolve ==
    /\ p_pc = "L71"
    /\ IF ResolveError(p_obj, p_env) = "none"
       THEN p_pc' = "L74" /\ p_obj' = resolve(p_obj) /\ UNCHANGED p_outcome
       ELSE /\ p_pc' = "L76"
            /\ p_outcome' = [NoOutcome EXCEPT !.kind = "pending",
                                              !.type = ResolveError(p_obj, p_env)]
            /\ UNCHANGED p_obj
    /\ UNCHANGED <<p_input, p_flag, p_env, normVars, fmtVars, walkVars>>

\* return absolute_path_obj if return_path_object else str(absolute_path_obj)
L74_Return ==
    /\ p_pc = "L74"
    /\ p_outcome' = IF p_flag
                    THEN [NoOutcome EXCEPT !.kind = "return", !.type = "Path", !.path = p_obj]
                    ELSE [NoOutcome EXCEPT !.kind = "return", !.type = "str",
                                           !.str = str_of(p_obj)]
    /\ p_pc' = "done"
    /\ UNCHANGED <<p_input, p_flag, p_env, p_obj, normVars, fmtVars, walkVars>>

\* except Exception as e: raise PathConversionError(...) from e
L76_Except ==
    /\ p_pc = "L76"
    /\ p_outcome' = [NoOutcome EXCEPT !.kind = "raise", !.type = "PathConversionError",
                                      !.cause = p_outcome.type]
    /\ p_pc' = "done"
    /\ UNCHANGED <<p_input, p_flag, p_env, p_obj, normVars, fmtVars, walkVars>>

PathNext == L46_TypeCheck \/ L55_Path \/ L71_Resolve \/ L74_Return \/ L76_Except

SpecPath == PathInit /\ [][PathNext]_vars

----------------------------------------------------------------------------
(* Properties of get_absolute_path, checked under SpecPath *)

\* C8: a call ends in TypeError exactly when the argument is no str, and then
\* no conversion was attempted and nothing was wrapped; a call on a str ends
\* either with the absolute path, a Path or its string form as
\* return_path_object asks, or with a PathConversionError that wraps the
\* exception of the conversion.
C8_ErrorOutcomes ==
    p_pc = "done" =>
        /\ p_outcome.kind \in {"return", "raise"}
        /\ (p_outcome.kind = "raise" /\ p_outcome.type = "TypeError") <=> p_input.type # "str"
        /\ p_input.type # "str" => p_obj = NoPath /\ p_outcome.cause = "none"
        /\ p_input.type = "str" =>
              \/ /\ p_outcome.kind = "return"
                 /\ p_outcome.type = (IF p_flag THEN "Path" ELSE "str")
                 /\ p_flag => /\ p_outcome.path.absolute
                              /\ Range(p_outcome.path.parts) \cap {".", ".."} = {}
                 /\ ~p_flag => /\ Head(p_outcome.str) = "/"
                               /\ Range(p_outcome.str) \cap {".", ".."} = {}
              \/ /\ p_outcome.kind = "raise"
                 /\ p_outcome.type = "PathConversionError"
                 /\ p_outcome.cause \in {"ValueError", "OSError", "RuntimeError"}

\* a relative path string whose resolution failed in the operating system
\* ended in a PathConversionError that wraps the OSError
C8_Witness ==
    /\ p_pc = "done"
    /\ p_input.type = "str" /\ ~p_input.absolute /\ ".." \in Range(p_input.parts)
    /\ p_outcome.kind = "raise" /\ p_outcome.type = "PathConversionError"
    /\ p_outcome.cause = "OSError"

----------------------------------------------------------------------------
(* SpecWalk: get_diff_files_and_folders on two directory trees.  The root  *)
(* of a tree is directory 0, its subfolders are named 1..MaxDirs, and a    *)
(* file [dir, name] is the file called name in directory dir.              *)

FileNames == 1..MaxNames

\* the trees a path may hold: some subfolders, and files in the root and in
\* the subfolders that exist
Trees ==
    {[dirs |-> ds, files |-> fs] :
        ds \in SUBSET (1..MaxDirs),
        fs \in SUBSET [dir : 0..MaxDirs, name : FileNames]}

WellFormed(t) == \A f \in t.files : f.dir = 0 \/ f.dir \in t.dirs

\* os.path.getsize(file_path): a file called n holds n bytes
getsize(f) == f.name

\* what file_paths.add(file) stores for a file: the bare name os.walk
\* yields, not the file_path joined the line before
FileEntry(f) == f.name

\* what folder_paths.add(dir) stores for a subfolder
FolderEntry(d) == d

RECURSIVE SumSizes(_)
SumSizes(fs) ==
    IF fs = {} THEN 0
    ELSE LET f == CHOOSE g \in fs : TRUE IN getsize(f) + SumSizes(fs \ {f})

\* the directories of ds in the order os.walk descends into them
RECURSIVE Listing(_)
Listing(ds) ==
    IF ds = {} THEN <<>>
    ELSE LET d == CHOOSE e \in ds : \A o \in ds : e <= o IN <<d>> \o Listing(ds \ {d})

\* the tree get_size_and_files is walking
CurrentTree == w_trees[IF w_pc = "walk1" THEN 1 ELSE 2]

WalkInit ==
    /\ w_trees \in {<<t1, t2>> : t1 \in {t \in Trees : WellFormed(t)},
                                 t2 \in {t \in Trees : WellFormed(t)}}
    /\ w_pc = "walk1"
    /\ w_todo = <<0>>
    /\ w_acc = EmptyStats
    /\ w_res = <<>>
    /\ w_diff = NoDiff
    /\ NormIdle /\ FmtIdle /\ PathIdle

\* one round of for root, dirs, files in os.walk(path): the files of the
\* directory are counted, sized and added, its subfolders added
L14_WalkDir ==
    /\ w_pc \in {"walk1", "walk2"}
    /\ w_todo # <<>>
    /\ LET root == Head(w_todo)
           files == {f \in CurrentTree.files : f.dir = root}
           dirs == IF root = 0 THEN CurrentTree.dirs ELSE {}
       IN /\ w_acc' = [total_size |-> w_acc.total_size + SumSizes(files),
                       file_count |-> w_acc.file_count + Cardinality(files),
                       file_paths |-> w_acc.file_paths \cup {FileEntry(f) : f \in files},
                       folder_paths |-> w_acc.folder_paths \cup {FolderEntry(d) : d \in dirs}]
          /\ w_todo' = Tail(w_todo) \o Listing(dirs)
    /\ UNCHANGED <<w_trees, w_pc, w_res, w_diff, normVars, fmtVars, pathVars>>

\* return total_size, file_count, file_paths, folder_paths
L26_Return ==
    /\ w_pc \in {"walk1", "walk2"}
    /\ w_todo = <<>>
    /\ w_res' = Append(w_res, w_acc)
    /\ w_acc' = EmptyStats
    /\ IF w_pc = "walk1"
       THEN w_pc' = "walk2" /\ w_todo' = <<0>>
       ELSE w_pc' = "diff" /\ UNCHANGED w_todo
    /\ UNCHANGED <<w_trees, w_diff, normVars, fmtVars, pathVars>>

\* diff_files1 = files1 - files2 ... diff_folders2 = folders2 - folders1
L37_Diff ==
    /\ w_pc = "diff"
    /\ w_diff' = [files1 |-> w_res[1].file_paths \ w_res[2].file_paths,
                  files2 |-> w_res[2].file_paths \ w_res[1].file_paths,
                  folders1 |-> w_res[1].folder_paths \ w_res[2].folder_paths,
                  folders2 |-> w_res[2].folder_paths \ w_res[1].folder_paths]
    /\ w_pc' = "done"
    /\ UNCHANGED <<w_trees, w_todo, w_acc, w_res, normVars, fmtVars, pathVars>>

WalkNext == L14_WalkDir \/ L26_Return \/ L37_Diff

SpecWalk == WalkInit /\ [][WalkNext]_vars

----------------------------------------------------------------------------
(* Properties of get_size_and_files and get_diff_files_and_folders,        *)
(* checked under SpecWalk                                                  *)

\* C11: every file counted is an entry of its own in the returned collection,
\* so that the collection has file_count entries, and every file that is in
\* one tree and not in the other is among the reported differences.
C11_EveryFileAnEntry ==
    /\ \A k \in 1..Len(w_res) :
          /\ w_res[k].file_count = Cardinality(w_trees[k].files)
          /\ Cardinality(w_res[k].file_paths) = w_res[k].file_count
    /\ w_pc = "done" =>
          /\ \A f \in w_trees[1].files \ w_trees[2].files : FileEntry(f) \in w_diff.files1
          /\ \A f \in w_trees[2].files \ w_trees[1].files : FileEntry(f) \in w_diff.files2

====
